---- MODULE Spec2Model ----
(***************************************************************************)
(* Model of code/utils/helper.py: the training helpers of a sequence to    *)
(* sequence generator trained with BLEU and style-classifier rewards.      *)
(*                                                                         *)
(* Every function of the file is modelled under a specification of its own *)
(* (SpecPad, SpecOpt, SpecReward, SpecSample, SpecSc, SpecBl, SpecEval);   *)
(* the variables of the functions a specification does not run stay at     *)
(* their idle values.  Tensors are sequences (a matrix is a sequence of    *)
(* rows), indexed from 1 where the code indexes from 0: position p of the  *)
(* code is element p + 1 here.  Real numbers are exact fractions <<n, d>>; *)
(* logarithms and exponentials are taken to base 2, so that a loss is      *)
(* expressed in units of ln 2 and softmax is 2^x / sum 2^x.                *)
(***************************************************************************)
EXTENDS Integers, Sequences, FiniteSets, TLC

VARIABLES
    pc,             \* position of the function that is running
    \* make_padding_mask
    input_ids, padding_idx, padding_mask,
    \* optimize: the optimizer, the loss and its graph, the effects of the call
    grad, param, param0, graph_alive, loss_grad, retain_graph, stmt, effects,
    opt_ret, ncalls,
    \* cal_reward_loss
    sample_probs, reward, idxs, output,
    \* sample_3d
    probs, temperature, row, sample_idx, s3_probs,
    \* cal_sc_loss / cal_bl_loss: one row of the batch
    out, idx, s, g, t, style, cls_logits, tgt, tgt_gre, tgt_ref, tgt_reward,
    loss, row_probs,
    \* evaluate / evaluate_sc
    fn, training, grad_enabled, valid_loader, global_style, it,
    total_num, total_acc, total_loss, ret

padVars    == <<input_ids, padding_idx, padding_mask>>
optVars    == <<grad, param, param0, graph_alive, loss_grad, retain_graph, stmt,
                effects, opt_ret, ncalls>>
rewardVars == <<sample_probs, reward, idxs, output>>
sampleVars == <<probs, temperature, row, sample_idx, s3_probs>>
rowVars    == <<out, idx, s, g, t, style, cls_logits, tgt, tgt_gre, tgt_ref,
                tgt_reward, loss, row_probs>>
evalVars   == <<fn, training, grad_enabled, valid_loader, global_style, it,
                total_num, total_acc, total_loss, ret>>
vars       == <<pc, padVars, optVars, rewardVars, sampleVars, rowVars, evalVars>>

(***************************************************************************)
(* Python's None, and a value that is present.                             *)
(***************************************************************************)
None == <<>>
Some(x) == <<x>>

PadIdle    == input_ids = None /\ padding_idx = 0 /\ padding_mask = None
OptIdle    == /\ grad = 0 /\ param = 0 /\ param0 = 0 /\ graph_alive = FALSE
              /\ loss_grad = 0 /\ retain_graph = FALSE /\ stmt = 0
              /\ effects = <<>> /\ opt_ret = None /\ ncalls = 0
RewardIdle == sample_probs = None /\ reward = None /\ idxs = None /\ output = None
SampleIdle == /\ probs = None /\ temperature = 0 /\ row = 0
              /\ sample_idx = None /\ s3_probs = None
RowIdle    == /\ out = None /\ idx = 0 /\ s = None /\ g = None /\ t = None /\ style = 0
              /\ cls_logits = None /\ tgt = None /\ tgt_gre = None
              /\ tgt_ref = None /\ tgt_reward = None /\ loss = None
              /\ row_probs = None
EvalIdle   == /\ fn = "" /\ training = TRUE /\ grad_enabled = TRUE
              /\ valid_loader = None /\ global_style = None /\ it = 0
              /\ total_num = 0 /\ total_acc = 0 /\ total_loss = 0 /\ ret = None

\* the variables a specification leaves at their idle values
PadOnly    == UNCHANGED <<optVars, rewardVars, sampleVars, rowVars, evalVars>>
OptOnly    == UNCHANGED <<padVars, rewardVars, sampleVars, rowVars, evalVars>>
RewardOnly == UNCHANGED <<padVars, optVars, sampleVars, rowVars, evalVars>>
SampleOnly == UNCHANGED <<padVars, optVars, rewardVars, rowVars, evalVars>>
RowOnly    == UNCHANGED <<padVars, optVars, rewardVars, sampleVars, evalVars>>
EvalOnly   == UNCHANGED <<padVars, optVars, rewardVars, sampleVars, rowVars>>

(***************************************************************************)
(* Exact fractions.                                                        *)
(***************************************************************************)
Abs(n) == IF n < 0 THEN -n ELSE n

RECURSIVE Gcd(_, _)
Gcd(a, b) == IF b = 0 THEN a ELSE Gcd(b, a % b)

\* n / d in lowest terms; a division by zero gives <<1, 0>> or <<-1, 0>>
\* (an infinity), or <<0, 0>> (not a number)
Frac(n, d) ==
    IF d = 0
    THEN <<IF n > 0 THEN 1 ELSE IF n < 0 THEN -1 ELSE 0, 0>>
    ELSE LET k == Gcd(Abs(n), Abs(d))
             sg == IF d < 0 THEN -1 ELSE 1
         IN  <<sg * (n \div k), sg * (d \div k)>>

FInt(n)     == <<n, 1>>
FAdd(a, b) == Frac(a[1] * b[2] + b[1] * a[2], a[2] * b[2])
FSub(a, b) == Frac(a[1] * b[2] - b[1] * a[2], a[2] * b[2])
FMul(a, b) == Frac(a[1] * b[1], a[2] * b[2])
FDiv(a, b) == Frac(a[1] * b[2], a[2] * b[1])
FNeg(a)    == <<-a[1], a[2]>>

RECURSIVE FSum(_)
FSum(xs) == IF xs = <<>> THEN FInt(0) ELSE FAdd(Head(xs), FSum(Tail(xs)))

FMean(xs) == FDiv(FSum(xs), FInt(Len(xs)))

RECURSIVE Flatten(_)
Flatten(m) == IF m = <<>> THEN <<>> ELSE Head(m) \o Flatten(Tail(m))

RECURSIVE Pow2(_)
Pow2(n) == IF n = 0 THEN 1 ELSE 2 * Pow2(n - 1)

(***************************************************************************)
(* The sequences of length n over S, and the b by l matrices over S.       *)
(***************************************************************************)
SeqsOf(S, n) == [1..n -> S]
Matrices(S, b, l) == SeqsOf(SeqsOf(S, l), b)

----------------------------------------------------------------------------
(***************************************************************************)
(* make_padding_mask (helper.py 14-26)                                     *)
(***************************************************************************)
\* padding_idx=1, the default of the signature
DefaultPaddingIdx == 1

\* the largest token id of an input, and the shape of an input
PadMaxId == 2
PadMaxBatch == 2
PadMaxLen == 2

\* Tensor.eq on a matrix: a new tensor, elementwise
eq(ids, p) == [i \in 1..Len(ids) |-> [j \in 1..Len(ids[i]) |-> ids[i][j] = p]]

\* Tensor.any
any(mask) == \E i \in 1..Len(mask) : \E j \in 1..Len(mask[i]) : mask[i][j]

make_padding_mask_always(ids, p) == Some(eq(ids, p))

make_padding_mask(ids, p) ==
    LET mask == eq(ids, p)
    IN  IF ~any(mask) THEN None ELSE Some(mask)

PadInit ==
    /\ pc = "call"
    /\ \E b \in 1..PadMaxBatch, l \in 1..PadMaxLen :
           input_ids \in Matrices(0..PadMaxId, b, l)
    /\ padding_idx \in {DefaultPaddingIdx, 0}
    /\ padding_mask = None

MakePaddingMask ==
    /\ pc = "call"
    /\ padding_mask' = make_padding_mask(input_ids, padding_idx)
    /\ pc' = "return"
    /\ UNCHANGED <<input_ids, padding_idx>>
    /\ PadOnly

InitPad == PadInit /\ OptIdle /\ RewardIdle /\ SampleIdle /\ RowIdle /\ EvalIdle

SpecPad == InitPad /\ [][MakePaddingMask]_vars

\* C4: make_padding_mask returns None when no id equals padding_idx, and
\* otherwise a mask of the shape of input_ids that is true exactly where the
\* id equals padding_idx; input_ids is never changed.
PaddingMaskExact ==
    /\ [](pc = "return" =>
            IF \A i \in 1..Len(input_ids) : \A j \in 1..Len(input_ids[i]) :
                   input_ids[i][j] # padding_idx
            THEN padding_mask = None
            ELSE /\ padding_mask # None
                 /\ LET m == padding_mask[1]
                    IN  /\ Len(m) = Len(input_ids)
                        /\ \A i \in 1..Len(m) :
                              /\ Len(m[i]) = Len(input_ids[i])
                              /\ \A j \in 1..Len(m[i]) :
                                    m[i][j] <=> (input_ids[i][j] = padding_idx))
    /\ [][input_ids' = input_ids]_vars

PaddingMaskWitness ==
    /\ pc = "return"
    /\ padding_mask # None
    /\ \E i \in 1..Len(input_ids) : \E j \in 1..Len(input_ids[i]) :
           input_ids[i][j] # padding_idx

----------------------------------------------------------------------------
(***************************************************************************)
(* optimize (helper.py 28-38).  The optimizer holds one parameter and its  *)
(* accumulated gradient; the loss holds its gradient with respect to the   *)
(* parameter and a graph that backward frees unless retain_graph is set.   *)
(* A call may be given a fresh loss or the loss of the previous call.      *)
(***************************************************************************)
\* the calls of one run
OptMaxCalls == 3

LossGrads == {-1, 2}

\* the statements of the body, lines 36, 37, 38
optimize_body_reset_last == <<"backward", "zero_grad", "step">>

optimize_body == <<"zero_grad", "backward", "step">>

\* what follows statement k of the body
OptAdvance(k) ==
    IF k < Len(optimize_body)
    THEN /\ stmt' = k + 1 /\ pc' = "running" /\ opt_ret' = opt_ret
    ELSE /\ stmt' = 0 /\ pc' = "returned" /\ opt_ret' = None

OptRaise ==
    /\ pc' = "raised"
    /\ stmt' = 0
    /\ UNCHANGED <<grad, param, param0, graph_alive, loss_grad, retain_graph,
                   effects, opt_ret, ncalls>>

OptInit ==
    /\ pc = "idle"
    /\ grad \in {0, 1}
    /\ param = 0 /\ param0 = 0
    /\ graph_alive = FALSE
    /\ loss_grad = 0
    /\ retain_graph = FALSE
    /\ stmt = 0
    /\ effects = <<>>
    /\ opt_ret = Some("unset")
    /\ ncalls = 0

\* the caller: optimize(opt, loss, retain_graph)
OptCall ==
    /\ pc \in {"idle", "returned", "raised"}
    /\ ncalls < OptMaxCalls
    /\ ncalls' = ncalls + 1
    /\ \E rg \in BOOLEAN : retain_graph' = rg
    /\ \/ \E lg \in LossGrads : loss_grad' = lg /\ graph_alive' = TRUE
       \/ ncalls > 0 /\ UNCHANGED <<loss_grad, graph_alive>>
    /\ param0' = param
    /\ effects' = <<>>
    /\ opt_ret' = Some("unset")
    /\ stmt' = 1
    /\ pc' = "running"
    /\ UNCHANGED <<grad, param>>
    /\ OptOnly

\* opt.zero_grad()
ZeroGrad ==
    /\ pc = "running" /\ optimize_body[stmt] = "zero_grad"
    /\ grad' = 0
    /\ effects' = Append(effects, "zero_grad")
    /\ OptAdvance(stmt)
    /\ UNCHANGED <<param, param0, graph_alive, loss_grad, retain_graph, ncalls>>
    /\ OptOnly

ZeroGradRaises ==
    /\ pc = "running" /\ optimize_body[stmt] = "zero_grad"
    /\ OptRaise
    /\ OptOnly

\* loss.backward(retain_graph=retain_graph)
Backward ==
    /\ pc = "running" /\ optimize_body[stmt] = "backward"
    /\ graph_alive
    /\ grad' = grad + loss_grad
    /\ graph_alive' = retain_graph
    /\ effects' = Append(effects, "backward")
    /\ OptAdvance(stmt)
    /\ UNCHANGED <<param, param0, loss_grad, retain_graph, ncalls>>
    /\ OptOnly

\* backward through a graph that an earlier backward freed
BackwardRaises ==
    /\ pc = "running" /\ optimize_body[stmt] = "backward"
    /\ ~graph_alive
    /\ OptRaise
    /\ OptOnly

\* opt.step()
Step ==
    /\ pc = "running" /\ optimize_body[stmt] = "step"
    /\ param' = param - grad
    /\ effects' = Append(effects, "step")
    /\ OptAdvance(stmt)
    /\ UNCHANGED <<grad, param0, graph_alive, loss_grad, retain_graph, ncalls>>
    /\ OptOnly

OptNext ==
    \/ OptCall \/ ZeroGrad \/ ZeroGradRaises
    \/ Backward \/ BackwardRaises \/ Step

InitOpt == OptInit /\ PadIdle /\ RewardIdle /\ SampleIdle /\ RowIdle /\ EvalIdle

SpecOpt == InitOpt /\ [][OptNext]_vars

\* C8: a call of optimize that returns has reset the gradients, then
\* backpropagated the loss with the caller's retain_graph, then applied one
\* update, in this order, and returns None; a call that raised in the reset
\* or in the backpropagation applied no update.
OptimizeThreeEffects ==
    /\ pc = "returned" =>
          /\ effects = <<"zero_grad", "backward", "step">>
          /\ grad = loss_grad
          /\ param = param0 - loss_grad
          /\ graph_alive = retain_graph
          /\ opt_ret = None
    /\ pc = "raised" =>
          /\ \A k \in 1..Len(effects) : effects[k] # "step"
          /\ param = param0

OptimizeWitness ==
    /\ pc = "returned"
    /\ ncalls > 1
    /\ param # param0 + loss_grad
    /\ param0 # 0

OptimizeRaisedWitness ==
    /\ pc = "raised" /\ effects = <<"zero_grad">>

----------------------------------------------------------------------------
(***************************************************************************)
(* cal_reward_loss (helper.py 40-65).  A probability is a fraction whose   *)
(* numerator and denominator are powers of two, so that its logarithm to   *)
(* base 2 is an integer.                                                   *)
(***************************************************************************)
\* the elements of sample_probs: every shape (batch, length) of at most
\* this many elements
RlMaxCells == 6

RlProbs == {<<1, 2>>, <<1, 4>>}
RlRewards == {<<-1, 1>>, <<1, 2>>}
RlScalars == {<<-1, 1>>, <<0, 1>>, <<3, 1>>, <<1, 2>>}

RECURSIVE Log2(_)
Log2(n) == IF n <= 1 THEN 0 ELSE 1 + Log2(n \div 2)

\* torch.log, in units of ln 2
log(p) == FInt(Log2(p[1]) - Log2(p[2]))

\* mask[i, :l] = 1 on a row of zeros of width w
length_mask_short(l, w) == [j \in 1..w |-> IF j < l THEN 1 ELSE 0]

length_mask(l, w) == [j \in 1..w |-> IF j <= l THEN 1 ELSE 0]

\* -sample_logprobs * reward, one element
neg_logprob_reward_clipped(p, r) ==
    FMul(FNeg(log(p)), IF r[1] < 0 THEN FInt(0) ELSE r)

neg_logprob_reward(p, r) == FMul(FNeg(log(p)), r)

\* one row of (output.sum(-1) / mask.sum(-1)), output = -logprobs * reward * mask
masked_row(sp_i, r, l) ==
    FDiv(FSum([j \in 1..Len(sp_i) |->
                  FMul(neg_logprob_reward(sp_i[j], r),
                       FInt(length_mask(l, Len(sp_i))[j]))]),
         FSum([j \in 1..Len(sp_i) |-> FInt(length_mask(l, Len(sp_i))[j])]))

\* one row of -sample_logprobs * reward
plain_row(sp_i, r) == [j \in 1..Len(sp_i) |-> neg_logprob_reward(sp_i[j], r)]

cal_reward_loss(sp, rw, ix) ==
    IF ix # None
    THEN FMean([i \in 1..Len(sp) |-> masked_row(sp[i], rw[i], ix[1][i])])
    ELSE FMean(Flatten([i \in 1..Len(sp) |-> plain_row(sp[i], rw[i])]))

RewardInit ==
    /\ pc = "call"
    /\ \E b \in 1..RlMaxCells, l \in 1..RlMaxCells :
          /\ b * l <= RlMaxCells
          /\ sample_probs \in Matrices(RlProbs, b, l)
          /\ reward \in SeqsOf(RlRewards, b)
          /\ idxs \in {None} \cup {Some(x) : x \in SeqsOf(1..l, b)}
    /\ output = None

CalRewardLoss ==
    /\ pc = "call"
    /\ output' = Some(cal_reward_loss(sample_probs, reward, idxs))
    /\ pc' = "return"
    /\ UNCHANGED <<sample_probs, reward, idxs>>
    /\ RewardOnly

InitReward == RewardInit /\ PadIdle /\ OptIdle /\ SampleIdle /\ RowIdle /\ EvalIdle

SpecReward == InitReward /\ [][CalRewardLoss]_vars

Scaled(k, rw) == [i \in 1..Len(rw) |-> FMul(k, rw[i])]

\* C6: with the sampled probabilities and the lengths fixed, the loss of the
\* reward scaled by k is k times the loss of the reward.
RewardLossLinear ==
    pc = "return" =>
        \A k \in RlScalars :
            cal_reward_loss(sample_probs, Scaled(k, reward), idxs)
                = FMul(k, output[1])

RewardLossLinearWitness ==
    /\ pc = "return"
    /\ idxs # None
    /\ Len(sample_probs) > 1
    /\ output[1][1] # 0
    /\ \E i \in 1..Len(reward) : reward[i][1] < 0
    /\ \E i \in 1..Len(reward) : reward[i][1] > 0

FullWidth(sp) == Some([i \in 1..Len(sp) |-> Len(sp[1])])

\* C7: with every length equal to the width, the masked loss is the loss
\* without lengths: the mean of -log(prob) * reward over all elements.
RewardLossFullMask ==
    (pc = "return" /\ idxs = FullWidth(sample_probs)) =>
        /\ output[1] = cal_reward_loss(sample_probs, reward, None)
        /\ output[1] = FDiv(FSum(Flatten(
                [i \in 1..Len(sample_probs) |-> [j \in 1..Len(sample_probs[1]) |->
                    FMul(FNeg(log(sample_probs[i][j])), reward[i])]])),
                FInt(Len(sample_probs) * Len(sample_probs[1])))

RewardLossFullMaskWitness ==
    /\ pc = "return"
    /\ idxs = FullWidth(sample_probs)
    /\ Len(sample_probs) > 1 /\ Len(sample_probs[1]) > 1
    /\ output[1][1] # 0
    /\ sample_probs[1] # sample_probs[2]

----------------------------------------------------------------------------
(***************************************************************************)
(* sample_3d (helper.py 164-185).  probs has shape (batch, length, vocab); *)
(* vocabulary index v of the code is element v + 1 of a distribution.      *)
(***************************************************************************)
\* the elements of a (batch, length) output, and the vocabulary
SampleMaxCells == 2
SampleVocab == 3

SampleProbValues == {<<0, 1>>, <<1, 2>>, <<1, 1>>}

\* temperature=1 the default, and a temperature below 1
SampleTemperatures == {<<1, 1>>, <<1, 2>>}

\* the distributions over the vocabulary: the rows that sum to 1
Distributions ==
    {d \in SeqsOf(SampleProbValues, SampleVocab) : FSum(d) = FInt(1)}

\* stands for the 1e-20 of line 176, which is too small for a fraction of
\* 32-bit integers
Epsilon == <<1, 1024>>

\* probs + 1e-20 in float32: the sum rounds to a positive probs
add_epsilon(p) == IF p[1] = 0 THEN Epsilon ELSE p

RECURSIVE FPow(_, _)
FPow(x, e) == IF e = 0 THEN FInt(1) ELSE FMul(x, FPow(x, e - 1))

\* torch.exp(torch.div(torch.log(probs + 1e-20), temperature)), one element,
\* for a temperature 1/e
tempered(p, temp) == FPow(add_epsilon(p), temp[2] \div temp[1])

\* temp of lines 175-178, one batch row
temp_row(pr, temp) ==
    IF temp # FInt(1)
    THEN [j \in 1..Len(pr) |-> [v \in 1..Len(pr[j]) |-> tempered(pr[j][v], temp)]]
    ELSE pr

\* torch.multinomial(s, 1): per position, any index of positive weight
multinomial(sr) ==
    {ix \in SeqsOf(0..(Len(sr[1]) - 1), Len(sr)) :
        \A j \in 1..Len(sr) : sr[j][ix[j] + 1][1] > 0}

\* s.gather(1, temp_idx).squeeze(1)
gather_first(sr, ix) == [j \in 1..Len(sr) |-> sr[j][1]]

gather(sr, ix) == [j \in 1..Len(sr) |-> sr[j][ix[j] + 1]]

\* an index stored in a float32 tensor (24 bits of mantissa, round to even)
\* and read back by .long()
float32(n) ==
    IF n <= Pow2(24) THEN n
    ELSE LET sh == Log2(n) - 23
             q == n \div Pow2(sh)
             r == n % Pow2(sh)
             half == Pow2(sh - 1)
             up == r > half \/ (r = half /\ q % 2 = 1)
         IN  (IF up THEN q + 1 ELSE q) * Pow2(sh)

zeros(b, l) == [i \in 1..b |-> [j \in 1..l |-> 0]]

SampleInit ==
    /\ pc = "call"
    /\ \E b \in 1..SampleMaxCells, l \in 1..SampleMaxCells :
          /\ b * l <= SampleMaxCells
          /\ probs \in Matrices(Distributions, b, l)
    /\ temperature \in SampleTemperatures
    /\ row = 0
    /\ sample_idx = None
    /\ s3_probs = None

\* lines 173-174
SampleAllocate ==
    /\ pc = "call"
    /\ sample_idx' = zeros(Len(probs), Len(probs[1]))
    /\ s3_probs' = [i \in 1..Len(probs) |-> [j \in 1..Len(probs[1]) |-> FInt(0)]]
    /\ row' = 0
    /\ pc' = "loop"
    /\ UNCHANGED <<probs, temperature>>
    /\ SampleOnly

\* lines 179-183, one batch row
SampleRow ==
    /\ pc = "loop"
    /\ row < Len(probs)
    /\ LET sr == temp_row(probs[row + 1], temperature)
       IN  \E temp_idx \in multinomial(sr) :
              /\ sample_idx' = [sample_idx EXCEPT ![row + 1] =
                                   [j \in 1..Len(sr) |-> float32(temp_idx[j])]]
              /\ s3_probs' = [s3_probs EXCEPT ![row + 1] = gather(sr, temp_idx)]
    /\ row' = row + 1
    /\ UNCHANGED <<pc, probs, temperature>>
    /\ SampleOnly

\* line 185
SampleReturn ==
    /\ pc = "loop"
    /\ row = Len(probs)
    /\ pc' = "return"
    /\ UNCHANGED <<probs, temperature, row, sample_idx, s3_probs>>
    /\ SampleOnly

SampleNext == SampleAllocate \/ SampleRow \/ SampleReturn

InitSample == SampleInit /\ PadIdle /\ OptIdle /\ RewardIdle /\ RowIdle /\ EvalIdle

SpecSample == InitSample /\ [][SampleNext]_vars

SampleShapeAndRange ==
    /\ Len(sample_idx) = Len(probs) /\ Len(s3_probs) = Len(probs)
    /\ \A i \in 1..Len(probs) :
          /\ Len(sample_idx[i]) = Len(probs[i])
          /\ Len(s3_probs[i]) = Len(probs[i])
          /\ \A j \in 1..Len(probs[i]) :
                sample_idx[i][j] \in 0..(SampleVocab - 1)

\* C5 as stated: whatever the draw, every returned index is in [0, vocab)
\* and every returned probability is the value of probs at the row, the
\* position and the returned index.
SampleMatchesProbs ==
    pc = "return" =>
        /\ SampleShapeAndRange
        /\ \A i \in 1..Len(probs) : \A j \in 1..Len(probs[i]) :
              s3_probs[i][j] = probs[i][j][sample_idx[i][j] + 1]

\* C5 amended: the returned probability is the value of probs at the
\* returned index when temperature is 1, and that value (plus the epsilon)
\* raised to the power 1 / temperature otherwise.
SampleMatchesTemp ==
    pc = "return" =>
        /\ SampleShapeAndRange
        /\ \A i \in 1..Len(probs) : \A j \in 1..Len(probs[i]) :
              LET p == probs[i][j][sample_idx[i][j] + 1]
              IN  IF temperature = FInt(1)
                  THEN s3_probs[i][j] = p /\ p[1] > 0
                  ELSE s3_probs[i][j] = tempered(p, temperature)

SampleWitness ==
    /\ pc = "return"
    /\ temperature = FInt(1)
    /\ \E i \in 1..Len(probs) : \E j \in 1..Len(probs[i]) :
          sample_idx[i][j] > 0 /\ s3_probs[i][j] = <<1, 2>>

----------------------------------------------------------------------------
(***************************************************************************)
(* cal_sc_loss (helper.py 84-114) and cal_bl_loss (helper.py 119-162), on  *)
(* one row of the batch: the loops of lines 100-103 and 143-153 treat the  *)
(* rows one by one, and the loss of cal_reward_loss is the mean of the     *)
(* rows' losses.  out holds the row's logits, one vector per position.     *)
(***************************************************************************)
\* the width of the row in cal_sc_loss and in cal_bl_loss
ScMaxLen == 6
BlMaxLen == 4

\* tokenizer.eos_token_id, and the start and padding ids of a reference
eos_token_id == 2
bos_token_id == 0
pad_token_id == 1

\* the guards of lines 102 and 146/148: 4 < e[0] < i and 0 < s_e[0] < i
ScMinEos == 4
BlMinEos == 0

\* logits over a vocabulary of three ids whose softmax to base 2 is
\* 1/2, 1/4, 1/4: the id favoured is 0, or eos
FavourBos == <<1, 0, 0>>
FavourEos == <<0, 0, 1>>

ClsLogits == {<<0, 0>>, <<1, 0>>, <<0, 2>>}

\* the BLEU scores of nltk's sentence_bleu, which the model does not compute
BleuValues == {<<1, 4>>, <<1, 1>>}

Min(a, b) == IF a < b THEN a ELSE b
Max(a, b) == IF a > b THEN a ELSE b

\* F.softmax(x, dim=-1) of one vector, to base 2
softmax(lg) ==
    [v \in 1..Len(lg) |->
        Frac(Pow2(lg[v]), FSum([u \in 1..Len(lg) |-> FInt(Pow2(lg[u]))])[1])]

\* torch.max(x, dim=-1) of one vector: (value, index), the index from 0
max_index(x) ==
    CHOOSE v \in 0..(Len(x) - 1) :
        \A u \in 1..Len(x) : x[u][1] * x[v + 1][2] <= x[v + 1][1] * x[u][2]

\* torch.arange(len(s))[s.eq(eos_token_id)]: the positions of eos, ascending
eos_positions(x) == {p \in 0..(Len(x) - 1) : x[p + 1] = eos_token_id}

\* e[0]
first_of(ps) == CHOOSE p \in ps : \A q \in ps : p <= q

\* x[:e] of Python: a negative e counts from the end
slice_to(x, e) ==
    IF e >= 0 THEN SubSeq(x, 1, Min(e, Len(x)))
    ELSE SubSeq(x, 1, Max(0, Len(x) + e))

\* x[a:e] of Python for a, e >= 0
slice_from_to(x, a, e) == SubSeq(x, a + 1, Min(e, Len(x)))

\* line 102
sc_end_inclusive(x, i) ==
    LET e == eos_positions(x)
    IN  IF 0 < Cardinality(e) /\ ScMinEos <= first_of(e) /\ first_of(e) < i
        THEN first_of(e) ELSE i - 1

sc_end(x, i) ==
    LET e == eos_positions(x)
    IN  IF 0 < Cardinality(e) /\ ScMinEos < first_of(e) /\ first_of(e) < i
        THEN first_of(e) ELSE i - 1

\* lines 146 and 148
bl_end_in_range(x, i) ==
    LET e == {p \in eos_positions(x) : BlMinEos < p /\ p < i}
    IN  IF 0 < Cardinality(e) THEN first_of(e) ELSE i - 1

bl_end(x, i) ==
    LET e == eos_positions(x)
    IN  IF 0 < Cardinality(e) /\ BlMinEos < first_of(e) /\ first_of(e) < i
        THEN first_of(e) ELSE i - 1

\* lines 107-110
sc_reward_ignoring_style(tgt_cls, st) == FSub(tgt_cls[2], tgt_cls[1])

sc_reward(tgt_cls, st) ==
    IF st = 0 THEN FSub(tgt_cls[2], tgt_cls[1])
    ELSE FSub(tgt_cls[1], tgt_cls[2])

ScInit ==
    /\ pc = "call"
    /\ out \in {[j \in 1..ScMaxLen |-> FavourBos], [j \in 1..ScMaxLen |-> FavourEos]}
    /\ idx \in 1..ScMaxLen
    /\ style \in {0, 1}
    /\ s = None /\ g = None /\ t = None /\ cls_logits = None
    /\ tgt = None /\ tgt_gre = None /\ tgt_ref = None
    /\ tgt_reward = None /\ loss = None /\ row_probs = None

\* line 96: out = F.softmax(out, dim=-1)
ScSoftmax ==
    /\ pc = "call"
    /\ out' = [j \in 1..Len(out) |-> softmax(out[j])]
    /\ pc' = "softmaxed"
    /\ UNCHANGED <<idx, s, g, t, style, cls_logits, tgt, tgt_gre, tgt_ref,
                   tgt_reward, loss, row_probs>>
    /\ RowOnly

\* line 97: sample_3d(out), at the default temperature
ScSample ==
    /\ pc = "softmaxed"
    /\ \E sample \in multinomial(out) :
          /\ s' = sample
          /\ row_probs' = gather(out, sample)
    /\ pc' = "sampled"
    /\ UNCHANGED <<out, idx, g, t, style, cls_logits, tgt, tgt_gre, tgt_ref,
                   tgt_reward, loss>>
    /\ RowOnly

\* lines 99-103: the truncation of the sample
ScTruncate ==
    /\ pc = "sampled"
    /\ tgt' = Some(slice_to(s, sc_end(s, idx)))
    /\ pc' = "truncated"
    /\ UNCHANGED <<out, idx, s, g, t, style, cls_logits, tgt_gre, tgt_ref,
                   tgt_reward, loss, row_probs>>
    /\ RowOnly

\* lines 104-114: the classifier on the truncated sample, the reward, the loss
ScRewardLoss ==
    /\ pc = "truncated"
    /\ \E cl \in ClsLogits :
          /\ cls_logits' = cl
          /\ tgt_reward' = Some(sc_reward(softmax(cl), style))
          /\ loss' = Some(cal_reward_loss(<<row_probs>>,
                                          <<sc_reward(softmax(cl), style)>>,
                                          Some(<<idx>>)))
    /\ pc' = "return"
    /\ UNCHANGED <<out, idx, s, g, t, style, tgt, tgt_gre, tgt_ref, row_probs>>
    /\ RowOnly

ScNext == ScSoftmax \/ ScSample \/ ScTruncate \/ ScRewardLoss

InitSc == ScInit /\ PadIdle /\ OptIdle /\ RewardIdle /\ SampleIdle /\ EvalIdle

SpecSc == InitSc /\ [][ScNext]_vars

\* the position of the first eos of x, or -1
FirstEos(x) ==
    IF \E p \in 1..Len(x) : x[p] = eos_token_id
    THEN (CHOOSE p \in 1..Len(x) :
             x[p] = eos_token_id /\ \A q \in 1..(p - 1) : x[q] # eos_token_id) - 1
    ELSE -1

Prefix(x, n) == [j \in 1..n |-> x[j]]

ScTruncationEarlyEosWitness ==
    /\ pc = "return"
    /\ FirstEos(s) = 4 /\ idx = 6
    /\ Len(tgt[1]) = 5

\* C9: the reward is P(class 1) - P(class 0) of the softmaxed classifier
\* output for style 0 and P(class 0) - P(class 1) for style 1, and the two
\* are each other's negation.
ScRewardSign ==
    pc = "return" =>
        LET a == Pow2(cls_logits[1])
            b == Pow2(cls_logits[2])
            p0 == Frac(a, a + b)
            p1 == Frac(b, a + b)
        IN  /\ style = 0 => tgt_reward = Some(FSub(p1, p0))
            /\ style = 1 => tgt_reward = Some(FSub(p0, p1))
            /\ sc_reward(softmax(cls_logits), 0)
                  = FNeg(sc_reward(softmax(cls_logits), 1))

ScRewardSignWitness ==
    /\ pc = "return"
    /\ style = 1
    /\ cls_logits = <<1, 0>>
    /\ tgt_reward = Some(<<1, 3>>)

----------------------------------------------------------------------------
(***************************************************************************)
(* cal_bl_loss (helper.py 119-162), one row.                               *)
(***************************************************************************)
\* (tgt_gre - tgt_sam) * 0.2
BlRewardScale == <<1, 5>>

\* a reference of valid length l padded to width w: the start id, the
\* content, the end id, the padding
reference(l, w) ==
    [j \in 1..w |->
        IF j = 1 THEN bos_token_id
        ELSE IF j < l THEN j + 2
        ELSE IF j = l THEN eos_token_id
        ELSE pad_token_id]

BlInit ==
    /\ pc = "call"
    /\ out \in SeqsOf({FavourBos, FavourEos}, BlMaxLen)
    /\ idx \in 1..BlMaxLen
    /\ t = reference(idx, BlMaxLen)
    /\ style = 0
    /\ s = None /\ g = None /\ cls_logits = None
    /\ tgt = None /\ tgt_gre = None /\ tgt_ref = None
    /\ tgt_reward = None /\ loss = None /\ row_probs = None

\* line 133: out = F.softmax(out, dim=-1)
BlSoftmax ==
    /\ pc = "call"
    /\ out' = [j \in 1..Len(out) |-> softmax(out[j])]
    /\ pc' = "softmaxed"
    /\ UNCHANGED <<idx, s, g, t, style, cls_logits, tgt, tgt_gre, tgt_ref,
                   tgt_reward, loss, row_probs>>
    /\ RowOnly

\* lines 134-135: sample_3d(out) and torch.max(out, dim=-1)
BlSample ==
    /\ pc = "softmaxed"
    /\ \E sample \in multinomial(out) :
          /\ s' = sample
          /\ row_probs' = gather(out, sample)
    /\ g' = [j \in 1..Len(out) |-> max_index(out[j])]
    /\ pc' = "sampled"
    /\ UNCHANGED <<out, idx, t, style, cls_logits, tgt, tgt_gre, tgt_ref,
                   tgt_reward, loss>>
    /\ RowOnly

\* lines 142-153: the truncation of the sample, the greedy row, the reference
BlTruncate ==
    /\ pc = "sampled"
    /\ tgt' = Some(slice_to(s, bl_end(s, idx)))
    /\ tgt_gre' = Some(slice_to(g, bl_end(g, idx)))
    /\ tgt_ref' = Some(slice_from_to(t, 1, idx))
    /\ pc' = "truncated"
    /\ UNCHANGED <<out, idx, s, g, t, style, cls_logits, tgt_reward, loss, row_probs>>
    /\ RowOnly

\* lines 156-162: the two BLEU scores (equal for equal hypotheses), the
\* reward and the loss
BlRewardLoss ==
    /\ pc = "truncated"
    /\ \E sam \in BleuValues, gre \in BleuValues :
          /\ tgt = tgt_gre => sam = gre
          /\ tgt_reward' = Some(FMul(FSub(gre, sam), BlRewardScale))
          /\ loss' = Some(cal_reward_loss(<<row_probs>>,
                                          <<FMul(FSub(gre, sam), BlRewardScale)>>,
                                          Some(<<idx>>)))
    /\ pc' = "return"
    /\ UNCHANGED <<out, idx, s, g, t, style, cls_logits, tgt, tgt_gre, tgt_ref,
                   row_probs>>
    /\ RowOnly

BlNext == BlSoftmax \/ BlSample \/ BlTruncate \/ BlRewardLoss

InitBl == BlInit /\ PadIdle /\ OptIdle /\ RewardIdle /\ SampleIdle /\ EvalIdle

SpecBl == InitBl /\ [][BlNext]_vars

\* the first position p with 0 < p < l that holds eos, or -1
FirstEosInRange(x, l) ==
    IF \E p \in 1..(l - 1) : p < Len(x) /\ x[p + 1] = eos_token_id
    THEN CHOOSE p \in 1..(l - 1) :
            /\ p < Len(x) /\ x[p + 1] = eos_token_id
            /\ \A q \in 1..(p - 1) : x[q + 1] # eos_token_id
    ELSE -1

CutInRange(x, l) ==
    IF FirstEosInRange(x, l) # -1
    THEN Some(Prefix(x, FirstEosInRange(x, l)))
    ELSE Some(Prefix(x, l - 1))

CutAtFirstEos(x, l) ==
    IF 0 < FirstEos(x) /\ FirstEos(x) < l
    THEN Some(Prefix(x, FirstEos(x)))
    ELSE Some(Prefix(x, l - 1))

\* C2 as stated: the sample and the greedy row are cut at the first eos
\* among the positions p with 0 < p < L, and to L - 1 tokens when no eos
\* lies there; the reference is positions [1, L).
BlTruncationInRange ==
    pc \in {"truncated", "return"} =>
        /\ tgt = CutInRange(s, idx)
        /\ tgt_gre = CutInRange(g, idx)
        /\ tgt_ref = Some([j \in 1..(idx - 1) |-> t[j + 1]])

\* C2 amended: the sample and the greedy row are cut at their first eos
\* when it is at a position p with 0 < p < L, and to L - 1 tokens otherwise
\* (also when the first eos is at position 0 and another eos lies in the
\* range); the reference is positions [1, L).
BlTruncationFirstEos ==
    pc \in {"truncated", "return"} =>
        /\ tgt = CutAtFirstEos(s, idx)
        /\ tgt_gre = CutAtFirstEos(g, idx)
        /\ tgt_ref = Some([j \in 1..(idx - 1) |-> t[j + 1]])

\* a row whose first eos is at position 0 and whose next eos is in range
BlTruncationWitness ==
    /\ pc = "return"
    /\ idx = 4
    /\ FirstEos(s) = 0 /\ FirstEosInRange(s, idx) = 2
    /\ Len(tgt[1]) = 3
    /\ FirstEos(g) = 1 /\ Len(tgt_gre[1]) = 1

----------------------------------------------------------------------------
(***************************************************************************)
(* evaluate (helper.py 187-246) and evaluate_sc (helper.py 248-278).       *)
(* A batch of valid_loader is a record: rows holds, per sequence, the pair *)
(* <<label, prediction>> (for evaluate the prediction is the class the     *)
(* classifier gives the decoded sequence), loss the value of loss_fn on    *)
(* the batch.  global_style is None when the module globals classifier and *)
(* style that evaluate reads are not bound, and Some(style) when the       *)
(* importing program has bound them.                                       *)
(***************************************************************************)
\* the sequences of a validation set, over all its batches
EvalMaxSeqs == 3

EvalLosses == {1, 2}

BatchesOfSize(k) ==
    {[rows |-> r, loss |-> l] : r \in SeqsOf({0, 1} \X {0, 1}, k), l \in EvalLosses}

\* the loaders of at most n sequences; no batch is empty
RECURSIVE Loaders(_)
Loaders(n) ==
    {<<>>} \cup UNION {{<<b>> \o rest : b \in BatchesOfSize(k), rest \in Loaders(n - k)}
                          : k \in 1..n}

RECURSIVE Count(_)
Count(flags) == IF flags = <<>> THEN 0 ELSE Head(flags) + Count(Tail(flags))

\* lines 235-238: 1 for a prediction of the class opposite to style
evaluate_y_hat(rows, st) ==
    [k \in 1..Len(rows) |->
        IF st = 0 THEN (IF rows[k][2] = 1 THEN 1 ELSE 0)
        ELSE (IF rows[k][2] = 0 THEN 1 ELSE 0)]

\* line 271: float(p == q) for p, q in zip(y_batch, y_hat)
evaluate_sc_same(rows) ==
    [k \in 1..Len(rows) |-> IF rows[k][1] = rows[k][2] THEN 1 ELSE 0]

\* line 246
evaluate_return_swapped(tl, ta, tn, nb) == <<Frac(ta, tn), Frac(tl, nb)>>

evaluate_return(tl, ta, tn, nb) == <<Frac(tl, nb), Frac(ta, tn)>>

\* line 278
evaluate_sc_return(tl, ta, tn) == <<Frac(ta, tn), Frac(tl, tn)>>

EvalInit ==
    /\ pc = "call"
    /\ valid_loader \in Loaders(EvalMaxSeqs)
    /\ training \in BOOLEAN
    /\ grad_enabled = TRUE
    /\ \/ fn = "evaluate" /\ global_style \in {None, Some(0), Some(1)}
       \/ fn = "evaluate_sc" /\ global_style = None
    /\ it = 0 /\ total_num = 0 /\ total_acc = 0 /\ total_loss = 0
    /\ ret = None

\* lines 199-203 and 259-263: model.eval(), the totals, with torch.no_grad()
EvalEnter ==
    /\ pc = "call"
    /\ training' = FALSE
    /\ grad_enabled' = FALSE
    /\ total_num' = 0 /\ total_acc' = 0 /\ total_loss' = 0
    /\ it' = 0
    /\ pc' = "loop"
    /\ UNCHANGED <<fn, valid_loader, global_style, ret>>
    /\ EvalOnly

\* an exception leaves the with block, which restores gradient tracking,
\* and the function; nothing catches it
EvalPropagate ==
    /\ grad_enabled' = TRUE
    /\ pc' = "raised"
    /\ UNCHANGED <<fn, training, valid_loader, global_style, it,
                   total_num, total_acc, total_loss, ret>>

\* lines 204-241, one batch of evaluate with classifier and style bound
EvaluateBatch ==
    /\ pc = "loop" /\ fn = "evaluate" /\ it < Len(valid_loader)
    /\ global_style # None
    /\ LET batch == valid_loader[it + 1]
       IN  /\ total_acc' = total_acc + Count(evaluate_y_hat(batch.rows, global_style[1]))
           /\ total_num' = total_num + Len(batch.rows)
           /\ total_loss' = total_loss + batch.loss
    /\ it' = it + 1
    /\ UNCHANGED <<pc, fn, training, grad_enabled, valid_loader, global_style, ret>>
    /\ EvalOnly

\* line 233: classifier is not a name of the module
EvaluateNameError ==
    /\ pc = "loop" /\ fn = "evaluate" /\ it < Len(valid_loader)
    /\ global_style = None
    /\ EvalPropagate
    /\ EvalOnly

\* lines 264-273, one batch of evaluate_sc
EvaluateScBatch ==
    /\ pc = "loop" /\ fn = "evaluate_sc" /\ it < Len(valid_loader)
    /\ LET batch == valid_loader[it + 1]
       IN  /\ total_loss' = total_loss + batch.loss
           /\ total_acc' = total_acc + Count(evaluate_sc_same(batch.rows))
           /\ total_num' = total_num + Len(batch.rows)
    /\ it' = it + 1
    /\ UNCHANGED <<pc, fn, training, grad_enabled, valid_loader, global_style, ret>>
    /\ EvalOnly

\* a call of the loop body (the move to the device, the forward pass, the
\* loss function, decode, collate, the classifier) raises
EvalBodyRaises ==
    /\ pc = "loop" /\ it < Len(valid_loader)
    /\ EvalPropagate
    /\ EvalOnly

\* the end of the with block, and lines 243 and 275: model.train()
EvalTrain ==
    /\ pc = "loop" /\ it = Len(valid_loader)
    /\ grad_enabled' = TRUE
    /\ training' = TRUE
    /\ pc' = "print"
    /\ UNCHANGED <<fn, valid_loader, global_style, it,
                   total_num, total_acc, total_loss, ret>>
    /\ EvalOnly

\* lines 244-246 and 276-278
EvalReturn ==
    /\ pc = "print" /\ total_num # 0
    /\ ret' = IF fn = "evaluate"
              THEN Some(evaluate_return(total_loss, total_acc, total_num,
                                        Len(valid_loader)))
              ELSE Some(evaluate_sc_return(total_loss, total_acc, total_num))
    /\ pc' = "returned"
    /\ UNCHANGED <<fn, training, grad_enabled, valid_loader, global_style, it,
                   total_num, total_acc, total_loss>>
    /\ EvalOnly

\* lines 244 and 276 on an empty loader: 0.0 / 0.0 is a ZeroDivisionError
EvalZeroDivision ==
    /\ pc = "print" /\ total_num = 0
    /\ pc' = "raised"
    /\ UNCHANGED <<fn, training, grad_enabled, valid_loader, global_style, it,
                   total_num, total_acc, total_loss, ret>>
    /\ EvalOnly

EvalNext ==
    \/ EvalEnter \/ EvaluateBatch \/ EvaluateNameError \/ EvaluateScBatch
    \/ EvalBodyRaises \/ EvalTrain \/ EvalReturn \/ EvalZeroDivision

InitEval == EvalInit /\ PadIdle /\ OptIdle /\ RewardIdle /\ SampleIdle /\ RowIdle

SpecEval == InitEval /\ [][EvalNext]_vars

\* C1: the model is in evaluation mode during the loop and back in training
\* mode on every path out of the function, a return or an exception.
EvalRestoresTraining ==
    /\ pc = "loop" => ~training
    /\ pc \in {"returned", "raised"} => training

AllRows(loader) == Flatten([b \in 1..Len(loader) |-> loader[b].rows])

Matches(rows, f, st) ==
    Cardinality({k \in 1..Len(rows) :
        IF f = "evaluate_sc" THEN rows[k][1] = rows[k][2]
        ELSE rows[k][2] = 1 - st})

LossSum(loader) == Count([b \in 1..Len(loader) |-> loader[b].loss])

\* C10: evaluate returns (loss, accuracy) and evaluate_sc returns
\* (accuracy, loss); the accuracy of both is the number of matching
\* predictions of all batches over the number of sequences of all batches.
EvalReturnOrder ==
    pc = "returned" =>
        LET rows == AllRows(valid_loader)
            acc == Frac(Matches(rows, fn, IF fn = "evaluate" THEN global_style[1] ELSE 0),
                        Len(rows))
        IN  /\ fn = "evaluate" =>
                  ret = Some(<<Frac(LossSum(valid_loader), Len(valid_loader)), acc>>)
            /\ fn = "evaluate_sc" =>
                  ret = Some(<<acc, Frac(LossSum(valid_loader), Len(rows))>>)

EvalReturnOrderWitness ==
    /\ pc = "returned"
    /\ fn = "evaluate"
    /\ Len(valid_loader) = 2
    /\ ret[1][2] = <<1, 3>>
    /\ ret[1][1] = <<3, 2>>

EvalScReturnWitness ==
    /\ pc = "returned"
    /\ fn = "evaluate_sc"
    /\ Len(valid_loader) = 2
    /\ ret[1][1] = <<2, 3>>

====
